---- MODULE Spec2Model ----
(* A model of the evm-bully transaction replayer:                          *)
(*   - traverse           (replayer: walk the chain DB back to genesis)    *)
(*   - startTxGenerator   (replayer: the producer goroutine)               *)
(*   - Replay             (replayer: the consumer loop and its epilogue)   *)
(*   - procTxResult       (replayer: the result verifier)                  *)
(*   - ExponentialBackoff (nearapi/utils: the retry helper)                *)
(* The specifications of the module: SpecTraverse; Spec (the generator    *)
(* goroutine and Replay running concurrently over one channel), SpecBreak  *)
(* (the same over longer block lists with a break configured),             *)
(* SpecScenario (the same over three-block chains, setup included) and     *)
(* SpecQueue (the same over block lists longer than the channel's buffer,  *)
(* scheduled fairly); SpecBackoff.                                         *)
EXTENDS Integers, Sequences, FiniteSets, TLC

\* ------------------------------------------------------------------ bounds
MaxHeight == 3        \* traverse: largest requested block height H
MaxBlocks == 2        \* replay: largest length of the block-hash list
MaxTx     == 2        \* largest number of transactions in one block
MaxBatchSize == 2     \* largest configured BatchSize
MaxGas    == 5        \* the configured Gas
MaxRetry  == 3        \* backoff: largest retryNumber
MaxWait   == 3        \* backoff: largest startWaitTime (milliseconds)
MaxBackoffNum == 4    \* backoff: waitBackoff ranges over 0, 1/2, ..., MaxBackoffNum/2

NilBlock == [hash |-> 0, parent |-> 0, ntx |-> 0]   \* a nil *types.Block
NoErr == <<>>                                        \* a nil error

\* ------------------------------------------------------------------ state
VARIABLES
  \* traverse
  db,           \* the chain DB: <<hash, height>> -> block, for the blocks it holds
  canon,        \* canon[h+1]: hash of the source chain's block at height h
  H,            \* the blockHeight argument of traverse
  b,            \* traverse's local b (a block, or NilBlock after a failed read)
  blockHeightT, \* traverse's local blockHeight
  blocksT,      \* traverse's local blocks
  txCount,      \* traverse's local txCount
  reads,        \* the sequence of rawdb.ReadBlock calls traverse made
  tpc,          \* traverse's position: "idle" | "loop" | "done"
  tret,         \* traverse's return value [blocks, err]
  \* Replayer configuration and the source chain it replays
  r,            \* the Replayer struct (the fields the replay reads)
  blocks,       \* blocks[h+1]: number of transactions of the block at height h
  \* startTxGenerator's goroutine
  gpc,          \* "idle" | "start" | "blockLoop" | "txLoop" | "send" | "close" | "done"
  blockHeight,  \* index of the outer `range blocks` loop
  ti,           \* index i of the inner `range b.Transactions()` loop
  pending,      \* the *Tx the goroutine is sending on c (gpc = "send")
  gnext,        \* what follows the send: "txLoop" | "continueBlock" | "continueTx" | "close" | "return"
  c,            \* the channel's buffer
  closed,       \* close(c) has run
  emitted,      \* history: every *Tx sent on c, in order
  dbReads,      \* history: the generator's rawdb.ReadBlock calls, with the DB's state then
  \* Replay
  rpc,          \* Replay's position
  dbState,      \* "unopened" | "open" | "closed"
  dbCloses,     \* number of db.Close() calls
  defers,       \* Replay's stack of deferred calls
  batch,        \* Replay's local batch
  tx,           \* the *Tx last received from c
  txResult,     \* the result of the last Ledger call
  calls,        \* history: every Ledger call (FunctionCall / SignAndSendTransaction)
  verified,     \* number of procTxResult calls
  ndeq,         \* number of values received from c
  shown,        \* history: transactions printed by showTx
  ret,          \* Replay's return value once it has returned: [err]
  \* ExponentialBackoff
  bpc,          \* "idle" | "loop" | "call" | "sleep" | "done"
  startWaitTime, retryNumber, waitBackoff,
  waitTime,     \* local waitTime
  bi,           \* the loop counter i
  fnCalls,      \* history: outcome of each fn() invocation
  sleeps,       \* history: argument (ms) of each time.Sleep
  bret          \* return value [res, err]

tvars == <<db, canon, H, b, blockHeightT, blocksT, txCount, reads, tpc, tret>>
gvars == <<gpc, blockHeight, ti, pending, gnext, c, closed, emitted, dbReads>>
rvars == <<rpc, dbState, dbCloses, defers, batch, tx, txResult, calls, verified,
           ndeq, shown, ret>>
pvars == <<r, blocks, gvars, rvars>>
bvars == <<bpc, startWaitTime, retryNumber, waitBackoff, waitTime, bi, fnCalls,
           sleeps, bret>>
vars  == <<tvars, pvars, bvars>>

\* ------------------------------------------------------- values and idle parts
NoTx      == <<>>        \* a nil *types.Transaction, empty Args
NoComment == <<>>        \* Tx.Comment == ""
NoTxStep  == [Comment |-> NoComment, Error |-> NoErr, MethodName |-> "",
              Args |-> NoTx, EthTx |-> NoTx]
NoResult  == "none"
NoConfig  == [Gas |-> 0, Skip |-> FALSE, Batch |-> FALSE, BatchSize |-> 1,
              StartBlock |-> 0, StartTx |-> 0, BreakBlock |-> 0, BreakTx |-> 0,
              Setup |-> FALSE]

TraverseIdle ==
  /\ db = <<>> /\ canon = <<>> /\ H = 0 /\ b = NilBlock /\ blockHeightT = 0
  /\ blocksT = <<>> /\ txCount = 0 /\ reads = <<>> /\ tpc = "idle"
  /\ tret = [blocks |-> <<>>, err |-> NoErr]

PipelineIdle ==
  /\ r = NoConfig /\ blocks = <<>>
  /\ gpc = "idle" /\ blockHeight = 0 /\ ti = 0 /\ pending = NoTxStep /\ gnext = ""
  /\ c = <<>> /\ closed = FALSE /\ emitted = <<>> /\ dbReads = <<>>
  /\ rpc = "idle" /\ dbState = "unopened" /\ dbCloses = 0 /\ defers = <<>>
  /\ batch = <<>> /\ tx = NoTxStep /\ txResult = NoResult /\ calls = <<>>
  /\ verified = 0 /\ ndeq = 0 /\ shown = <<>> /\ ret = [err |-> NoErr]

BackoffIdle ==
  /\ bpc = "idle" /\ startWaitTime = 0 /\ retryNumber = 0 /\ waitBackoff = <<1, 1>>
  /\ waitTime = 0 /\ bi = 0 /\ fnCalls = <<>> /\ sleeps = <<>>
  /\ bret = [res |-> NoResult, err |-> NoErr]

\* ---------------------------------------------------------------- traverse
Hashes == 1..(MaxHeight + 1)

Injective(s) == \A x, y \in DOMAIN s : s[x] = s[y] => x = y

\* rawdb.ReadBlock(db, hash, number): the block stored under the pair, or nil
ReadBlock(d, hash, number) ==
  IF <<hash, number>> \in DOMAIN d THEN d[<<hash, number>>] ELSE NilBlock

\* lines 221-223: swap blocks[i], blocks[j] while i < j, i from 0, j from len-1
RECURSIVE ReverseFrom(_, _, _)
ReverseFrom(s, lo, hi) ==
  IF lo < hi
    THEN ReverseFrom([s EXCEPT ![lo] = s[hi], ![hi] = s[lo]], lo + 1, hi - 1)
    ELSE s

\* a reversal whose upper index starts one short of the last element
ReverseShort(s) == ReverseFrom(s, 1, Len(s) - 1)

Reverse(s) == ReverseFrom(s, 1, Len(s))

\* The block of the source chain at height h (0-based) for hash assignment c
\* and transaction counts n.
ChainBlock(cn, n, h) ==
  [hash |-> cn[h + 1], parent |-> IF h = 0 THEN 0 ELSE cn[h], ntx |-> n[h + 1]]

InitTraverse ==
  \E h \in 0..MaxHeight :
    \E cn \in {s \in [1..(h + 1) -> Hashes] : Injective(s)} :
      \E n \in [1..(h + 1) -> 0..1] :
        \E present \in SUBSET (0..(h - 1)) :
          /\ H = h
          /\ canon = cn
          /\ db = [k \in {<<cn[x + 1], x>> : x \in present \cup {h}}
                     |-> ChainBlock(cn, n, k[2])]
          /\ b = ChainBlock(cn, n, h)
          /\ blockHeightT = h
          /\ blocksT = <<>>
          /\ txCount = 0
          /\ reads = <<>>
          /\ tpc = "loop"
          /\ tret = [blocks |-> <<>>, err |-> NoErr]
          /\ PipelineIdle
          /\ BackoffIdle

\* (a variant that hands back the hashes collected so far with the error)
TraverseFailPartial(bs, height, blockHash) ==
  [blocks |-> bs, err |-> <<"cannot read block", height, blockHash>>]

\* lines 211-214: `return nil, fmt.Errorf("cannot read block ...")`, reached with
\* the hashes bs collected so far
TraverseFail(bs, height, blockHash) ==
  [blocks |-> <<>>, err |-> <<"cannot read block", height, blockHash>>]

\* lines 207-219: one iteration of `for blockHeight > 0`
TraverseStep ==
  /\ tpc = "loop"
  /\ blockHeightT > 0
  /\ LET blockHash == b.parent
         height    == blockHeightT - 1
         nb        == ReadBlock(db, blockHash, height)
     IN /\ blockHeightT' = height
        /\ b' = nb
        /\ reads' = Append(reads, <<blockHash, height>>)
        /\ IF nb = NilBlock
             THEN /\ tpc' = "done"
                  /\ tret' = TraverseFail(blocksT, height, blockHash)
                  /\ UNCHANGED <<blocksT, txCount>>
             ELSE /\ blocksT' = Append(blocksT, blockHash)
                  /\ txCount' = txCount + nb.ntx
                  /\ UNCHANGED <<tpc, tret>>
  /\ UNCHANGED <<db, canon, H, pvars, bvars>>

\* lines 220-225: the loop is over; reverse blocks and return them
TraverseReturn ==
  /\ tpc = "loop"
  /\ blockHeightT = 0
  /\ blocksT' = Reverse(blocksT)
  /\ tret' = [blocks |-> blocksT', err |-> NoErr]
  /\ tpc' = "done"
  /\ UNCHANGED <<db, canon, H, b, blockHeightT, txCount, reads, pvars, bvars>>

NextTraverse == TraverseStep \/ TraverseReturn

SpecTraverse == InitTraverse /\ [][NextTraverse]_vars

\* --------------------------------------------------------- startTxGenerator
QueueFactor == 10     \* make(chan *Tx, 10*r.BatchSize)

\* (a variant whose buffer is one slot larger)
ChanCapOneMore == QueueFactor * r.BatchSize + 1

\* line 235: the capacity of c
ChanCap == QueueFactor * r.BatchSize

Comment(text) == [NoTxStep EXCEPT !.Comment = text]
ErrorTx(err)  == [NoTxStep EXCEPT !.Error = err]

\* r.beginChainTx(a, evmContract, genesisBlock): the bootstrap Submission
beginChainTx ==
  [NoTxStep EXCEPT !.Comment = <<"begin_chain()">>, !.MethodName = "begin_chain",
                   !.Args = <<"genesis">>]

\* beginBlockTx(a, evmContract, r.Gas, ctx): the begin-block Submission
beginBlockTx(height) ==
  [NoTxStep EXCEPT !.Comment = <<"begin_block()", height>>,
                   !.MethodName = "begin_block", !.Args = <<"ctx", height>>]

\* lines 295-301: the submit step of transaction idx of the block at height
submitTx(height, idx) ==
  [Comment |-> <<"submit", height, idx>>, Error |-> NoErr, MethodName |-> "submit",
   Args |-> <<"rlp", height, idx>>, EthTx |-> <<"tx", height, idx>>]

\* lines 245, 276: the two break tests
BreakAtBlock(height) ==
  r.BreakBlock # 0 /\ r.BreakTx = 0 /\ height = r.BreakBlock
BreakAtTx(height, idx) ==
  r.BreakBlock # 0 /\ height = r.BreakBlock /\ idx = r.BreakTx

\* lines 249, 280: the two skip tests
SkipBlock(height) == height < r.StartBlock

\* (a variant that also skips the start transaction itself)
SkipTxInclusive(height, idx) == height = r.StartBlock /\ idx <= r.StartTx

SkipTx(height, idx) == height = r.StartBlock /\ idx < r.StartTx

\* line 267: a begin-block Submission is sent for the block (else a Comment)
\* (a variant that ignores the Skip flag)
EmitBeginBlockAlways(ntx) == TRUE

\* (a variant with `&&` for `||`)
EmitBeginBlockBoth(ntx) == ~r.Skip /\ ntx > 0

EmitBeginBlock(ntx) == ~r.Skip \/ ntx > 0

\* The goroutine reaches a send `c <- t`, to continue at `next` afterwards.
GenPend(t, next) ==
  /\ pending' = t
  /\ gnext' = next
  /\ gpc' = "send"

\* lines 239-240: c <- r.beginChainTx(...)
GenBootstrap ==
  /\ gpc = "start"
  /\ GenPend(beginChainTx, "blockLoop")
  /\ UNCHANGED <<blockHeight, ti, c, closed, emitted, dbReads>>
  /\ UNCHANGED <<r, blocks, rvars, tvars, bvars>>

\* (a variant of GenSend whose `continue` of the inner loop does not advance i)
GenSendStuck ==
  /\ gpc = "send"
  /\ Len(c) < ChanCap
  /\ c' = Append(c, pending)
  /\ emitted' = Append(emitted, pending)
  /\ gpc' = CASE gnext = "return"        -> "done"
              [] gnext = "continueBlock" -> "blockLoop"
              [] gnext = "continueTx"    -> "txLoop"
              [] OTHER                   -> gnext
  /\ blockHeight' = IF gnext = "continueBlock" THEN blockHeight + 1 ELSE blockHeight
  /\ ti' = ti
  /\ UNCHANGED <<pending, gnext, closed, dbReads>>
  /\ UNCHANGED <<r, blocks, rvars, tvars, bvars>>

\* Any `c <- pending`: blocks while the buffer is full.
GenSend ==
  /\ gpc = "send"
  /\ Len(c) < ChanCap
  /\ c' = Append(c, pending)
  /\ emitted' = Append(emitted, pending)
  /\ gpc' = CASE gnext = "return"        -> "done"
              [] gnext = "continueBlock" -> "blockLoop"
              [] gnext = "continueTx"    -> "txLoop"
              [] OTHER                   -> gnext
  /\ blockHeight' = IF gnext = "continueBlock" THEN blockHeight + 1 ELSE blockHeight
  /\ ti' = IF gnext = "continueTx" THEN ti + 1 ELSE ti
  /\ UNCHANGED <<pending, gnext, closed, dbReads>>
  /\ UNCHANGED <<r, blocks, rvars, tvars, bvars>>

\* lines 243-271: the head of one iteration of `for blockHeight, blockHash :=
\* range blocks`, up to the send it reaches (or the end of the range).
GenBlock ==
  /\ gpc = "blockLoop"
  /\ IF blockHeight >= Len(blocks)
       THEN /\ gpc' = "close"
            /\ UNCHANGED <<pending, gnext, ti, dbReads>>
       ELSE IF BreakAtBlock(blockHeight)
         THEN /\ GenPend(Comment(<<"breaking block", blockHeight>>), "close")
              /\ UNCHANGED <<ti, dbReads>>
         ELSE IF SkipBlock(blockHeight)
           THEN /\ GenPend(Comment(<<"skipping block", blockHeight>>), "continueBlock")
                /\ UNCHANGED <<ti, dbReads>>
           ELSE \* rawdb.ReadBlock, then getBlockContext
                /\ dbReads' = Append(dbReads, <<blockHeight, dbState>>)
                /\ ti' = 0
                /\ \E outcome \in {"ok", "cannot read block", "block context"} :
                     IF outcome # "ok"
                       THEN GenPend(ErrorTx(<<outcome, blockHeight>>), "return")
                       ELSE IF EmitBeginBlock(blocks[blockHeight + 1])
                         THEN GenPend(beginBlockTx(blockHeight), "txLoop")
                         ELSE GenPend(Comment(<<"begin_block() skipped for empty block",
                                                blockHeight>>), "txLoop")
  /\ UNCHANGED <<blockHeight, c, closed, emitted>>
  /\ UNCHANGED <<r, blocks, rvars, tvars, bvars>>

\* lines 274-302: the head of one iteration of `for i, tx := range
\* b.Transactions()`, up to the send it reaches (or the end of the range).
GenTx ==
  /\ gpc = "txLoop"
  /\ IF ti >= blocks[blockHeight + 1]
       THEN /\ gpc' = "blockLoop"
            /\ blockHeight' = blockHeight + 1
            /\ UNCHANGED <<pending, gnext>>
       ELSE /\ UNCHANGED blockHeight
            /\ IF BreakAtTx(blockHeight, ti)
                 THEN GenPend(Comment(<<"breaking at transaction", ti, blockHeight>>), "close")
                 ELSE IF SkipTx(blockHeight, ti)
                   THEN GenPend(Comment(<<"skipping transaction", ti, blockHeight>>),
                                "continueTx")
                   ELSE \* tx.MarshalBinary, then utils.FormatNearAmount
                        \E outcome \in {"ok", "marshal", "format amount"} :
                          IF outcome # "ok"
                            THEN GenPend(ErrorTx(<<outcome, blockHeight, ti>>), "return")
                            ELSE GenPend(submitTx(blockHeight, ti), "continueTx")
  /\ UNCHANGED <<ti, c, closed, emitted, dbReads>>
  /\ UNCHANGED <<r, blocks, rvars, tvars, bvars>>

\* (a variant of GenClose that ends the goroutine without closing c)
GenCloseForgotten ==
  /\ gpc = "close"
  /\ gpc' = "done"
  /\ UNCHANGED <<blockHeight, ti, pending, gnext, c, closed, emitted, dbReads>>
  /\ UNCHANGED <<r, blocks, rvars, tvars, bvars>>

\* line 304: close(c), reached by the end of the range and by both breaks
GenClose ==
  /\ gpc = "close"
  /\ closed' = TRUE
  /\ gpc' = "done"
  /\ UNCHANGED <<blockHeight, ti, pending, gnext, c, emitted, dbReads>>
  /\ UNCHANGED <<r, blocks, rvars, tvars, bvars>>

\* ------------------------------------------------------------------- Replay
LedgerOutcomes == {"ok", "Failure", "err"}   \* success status, failure status, call error

\* (a variant that gives every batched action the whole Gas)
BatchActionFullGas(t) ==
  [MethodName |-> t.MethodName, Args |-> t.Args, Gas |-> r.Gas, Deposit |-> 0]

\* lines 383-391: the near.Action appended for t in batch mode
BatchAction(t) ==
  [MethodName |-> t.MethodName, Args |-> t.Args,
   Gas |-> r.Gas \div r.BatchSize, Deposit |-> 0]

\* line 374: the single call's content, as one action
SingleAction(t) ==
  [MethodName |-> t.MethodName, Args |-> t.Args, Gas |-> r.Gas, Deposit |-> 0]

\* (a variant of procTxResult that lets a failed batch pass)
procTxResultLenient(batchMode, ethTx, result) ==
  IF result = "Failure" /\ ~batchMode
    THEN [err |-> <<"replayer: transaction failed">>,
          shown |-> IF ethTx # NoTx THEN <<ethTx>> ELSE <<>>]
    ELSE [err |-> NoErr, shown |-> <<>>]

\* lines 447-463: procTxResult(batch, tx, txResult): the error it returns and the
\* transactions showTx printed
procTxResult(batchMode, ethTx, result) ==
  IF result = "Failure"
    THEN [err |-> <<"replayer: transaction failed">>,
          shown |-> IF ~batchMode /\ ethTx # NoTx THEN <<ethTx>> ELSE <<>>]
    ELSE [err |-> NoErr, shown |-> <<>>]

\* line 364: the step is one to submit
\* (a variant that takes only the submit steps)
HasMethodSubmit(t) == t.MethodName = "submit"

HasMethod(t) == t.MethodName # ""

\* line 362: the error Replay returns for a received Error step
\* (a variant that wraps the cause)
RecvErrorWrapped(t) == <<"replayer">> \o t.Error

RecvError(t) == t.Error

\* line 392: the batch is full
\* (a variant that lets one more action in)
BatchFullLate(bt) == Len(bt) > r.BatchSize

BatchFull(bt) == Len(bt) = r.BatchSize

\* line 398: batch = batch[:0]
\* (a variant that keeps the submitted actions)
ResetBatchKeep(bt) == bt

ResetBatch(bt) == <<>>

\* line 412: a last batch is left to process
\* (a variant that drops a last batch of one)
NeedsFlushMany(bt) == Len(bt) > 1

NeedsFlush(bt) == Len(bt) > 0

\* One Ledger call, as recorded in calls: the function, the actions sent, the
\* outcome, how many steps had been received when it was made, and where Replay
\* made it ("call": inside the range loop, "lastCall": after it).
LedgerCall(fn, actions, outcome) ==
  [fn |-> fn, actions |-> actions, outcome |-> outcome, deq |-> ndeq, at |-> rpc]

\* (a variant that leaves without running the deferred calls, as log.Fatal does)
ReplayExits(err) ==
  /\ ret' = [err |-> err]
  /\ rpc' = "done"

\* `return err` from Replay: the deferred calls run next
ReplayReturns(err) ==
  /\ ret' = [err |-> err]
  /\ rpc' = "returning"

\* lines 312-327: determineCacheDir, openDB, defer db.Close()
ReplayOpenDB ==
  /\ rpc = "start"
  /\ \E outcome \in {"ok", "cache dir", "open db"} :
       IF outcome = "ok"
         THEN /\ dbState' = "open"
              /\ defers' = <<"db.Close">>
              /\ rpc' = "setup"
              /\ UNCHANGED ret
         ELSE /\ ReplayReturns(<<outcome>>)
              /\ UNCHANGED <<dbState, defers>>
  /\ UNCHANGED <<dbCloses, batch, tx, txResult, calls, verified, ndeq, shown>>
  /\ UNCHANGED <<r, blocks, gvars, tvars, bvars>>

\* lines 329-347: account creation and neard setup, if r.Setup
ReplaySetup ==
  /\ rpc = "setup"
  /\ IF r.Setup
       THEN \E outcome \in {"ok", "create account", "neard setup"} :
              IF outcome = "ok"
                THEN /\ defers' = Append(defers, "neard.Stop")
                     /\ rpc' = "loadAccount"
                     /\ UNCHANGED ret
                ELSE /\ ReplayReturns(<<outcome>>)
                     /\ UNCHANGED defers
       ELSE /\ rpc' = "loadAccount"
            /\ UNCHANGED <<defers, ret>>
  /\ UNCHANGED <<dbState, dbCloses, batch, tx, txResult, calls, verified, ndeq, shown>>
  /\ UNCHANGED <<r, blocks, gvars, tvars, bvars>>

\* lines 349-359: near.LoadAccount, then the batch is made and the generator started
ReplayLoadAccount ==
  /\ rpc = "loadAccount"
  /\ \E outcome \in {"ok", "load account"} :
       IF outcome = "ok"
         THEN /\ batch' = <<>>
              /\ gpc' = "start"
              /\ rpc' = "range"
              /\ UNCHANGED ret
         ELSE /\ ReplayReturns(<<outcome>>)
              /\ UNCHANGED <<batch, gpc>>
  /\ UNCHANGED <<dbState, dbCloses, defers, tx, txResult, calls, verified, ndeq, shown>>
  /\ UNCHANGED <<blockHeight, ti, pending, gnext, c, closed, emitted, dbReads>>
  /\ UNCHANGED <<r, blocks, tvars, bvars>>

\* lines 360-402: `for tx := range c` receives one value and handles it up to the
\* Ledger call it has to make, if any
ReplayRecv ==
  /\ rpc = "range"
  /\ Len(c) > 0
  /\ LET t == Head(c)
     IN /\ c' = Tail(c)
        /\ tx' = t
        /\ ndeq' = ndeq + 1
        /\ IF t.Error # NoErr
             THEN /\ ReplayReturns(RecvError(t))
                  /\ UNCHANGED batch
             ELSE IF HasMethod(t)
               THEN IF ~r.Batch
                 THEN /\ rpc' = "call"
                      /\ UNCHANGED <<batch, ret>>
                 ELSE /\ batch' = Append(batch, BatchAction(t))
                      /\ rpc' = IF BatchFull(batch') THEN "call" ELSE "range"
                      /\ UNCHANGED ret
               ELSE UNCHANGED <<rpc, batch, ret>>
  /\ UNCHANGED <<dbState, dbCloses, defers, txResult, calls, verified, shown>>
  /\ UNCHANGED <<gpc, blockHeight, ti, pending, gnext, closed, emitted, dbReads>>
  /\ UNCHANGED <<r, blocks, tvars, bvars>>

\* lines 374-377 and 394-398: a.FunctionCall, or a.SignAndSendTransaction of the
\* full batch followed by its reset
ReplayCall ==
  /\ rpc = "call"
  /\ \E outcome \in LedgerOutcomes :
       /\ calls' = Append(calls,
            IF ~r.Batch
              THEN LedgerCall("FunctionCall", <<SingleAction(tx)>>, outcome)
              ELSE LedgerCall("SignAndSendTransaction", batch, outcome))
       /\ IF outcome = "err"
            THEN /\ ReplayReturns(<<"ledger call failed", Len(calls')>>)
                 /\ UNCHANGED <<txResult, batch>>
            ELSE /\ txResult' = outcome
                 /\ batch' = IF r.Batch THEN ResetBatch(batch) ELSE batch
                 /\ rpc' = "verify"
                 /\ UNCHANGED ret
  /\ UNCHANGED <<dbState, dbCloses, defers, tx, verified, ndeq, shown>>
  /\ UNCHANGED <<r, blocks, gvars, tvars, bvars>>

\* lines 403-405: procTxResult(r.Batch, tx.EthTx, txResult)
ReplayVerify ==
  /\ rpc = "verify"
  /\ LET res == procTxResult(r.Batch, tx.EthTx, txResult)
     IN /\ verified' = verified + 1
        /\ shown' = shown \o res.shown
        /\ IF res.err # NoErr
             THEN ReplayReturns(res.err)
             ELSE /\ rpc' = "range"
                  /\ UNCHANGED ret
  /\ UNCHANGED <<dbState, dbCloses, defers, batch, tx, txResult, calls, ndeq>>
  /\ UNCHANGED <<r, blocks, gvars, tvars, bvars>>

\* lines 409-412, 422: the range ends once c is closed and drained
ReplayRangeEnd ==
  /\ rpc = "range"
  /\ Len(c) = 0
  /\ closed
  /\ IF NeedsFlush(batch)
       THEN /\ rpc' = "lastCall"
            /\ UNCHANGED ret
       ELSE ReplayReturns(NoErr)
  /\ UNCHANGED <<dbState, dbCloses, defers, batch, tx, txResult, calls, verified,
                 ndeq, shown>>
  /\ UNCHANGED <<r, blocks, gvars, tvars, bvars>>

\* lines 413-417: a.SignAndSendTransaction of the last, partial batch
ReplayLastCall ==
  /\ rpc = "lastCall"
  /\ \E outcome \in LedgerOutcomes :
       /\ calls' = Append(calls, LedgerCall("SignAndSendTransaction", batch, outcome))
       /\ IF outcome = "err"
            THEN /\ ReplayReturns(<<"ledger call failed", Len(calls')>>)
                 /\ UNCHANGED txResult
            ELSE /\ txResult' = outcome
                 /\ rpc' = "lastVerify"
                 /\ UNCHANGED ret
  /\ UNCHANGED <<dbState, dbCloses, defers, batch, tx, verified, ndeq, shown>>
  /\ UNCHANGED <<r, blocks, gvars, tvars, bvars>>

\* lines 418-422: procTxResult(r.Batch, nil, txResult), then return nil
ReplayLastVerify ==
  /\ rpc = "lastVerify"
  /\ LET res == procTxResult(r.Batch, NoTx, txResult)
     IN /\ verified' = verified + 1
        /\ shown' = shown \o res.shown
        /\ ReplayReturns(res.err)
  /\ UNCHANGED <<dbState, dbCloses, defers, batch, tx, txResult, calls, ndeq>>
  /\ UNCHANGED <<r, blocks, gvars, tvars, bvars>>

\* lines 324-327, 346: Replay returns; its deferred calls run, last one first
ReplayDeferred ==
  /\ rpc = "returning"
  /\ rpc' = "done"
  /\ defers' = <<>>
  /\ LET n == Cardinality({k \in DOMAIN defers : defers[k] = "db.Close"})
     IN /\ dbCloses' = dbCloses + n
        /\ dbState' = IF n > 0 THEN "closed" ELSE dbState
  /\ UNCHANGED <<batch, tx, txResult, calls, verified, ndeq, shown, ret>>
  /\ UNCHANGED <<r, blocks, gvars, tvars, bvars>>

\* ------------------------------------------------------- the replay pipeline
Bool == {TRUE, FALSE}

Configs(setups) ==
  [Gas : {MaxGas}, Skip : Bool, Batch : Bool, BatchSize : 1..MaxBatchSize,
   StartBlock : 0..MaxBlocks, StartTx : 0..MaxTx,
   BreakBlock : 0..MaxBlocks, BreakTx : 0..MaxTx, Setup : setups]

Chains == UNION {[1..n -> 0..MaxTx] : n \in 0..MaxBlocks}

InitReplay(cfgs, chains) ==
  /\ r \in cfgs
  /\ blocks \in chains
  /\ gpc = "idle" /\ blockHeight = 0 /\ ti = 0 /\ pending = NoTxStep /\ gnext = ""
  /\ c = <<>> /\ closed = FALSE /\ emitted = <<>> /\ dbReads = <<>>
  /\ rpc = "start" /\ dbState = "unopened" /\ dbCloses = 0 /\ defers = <<>>
  /\ batch = <<>> /\ tx = NoTxStep /\ txResult = NoResult /\ calls = <<>>
  /\ verified = 0 /\ ndeq = 0 /\ shown = <<>> /\ ret = [err |-> NoErr]
  /\ TraverseIdle
  /\ BackoffIdle

Init == InitReplay(Configs({FALSE}), Chains)

Generator == GenBootstrap \/ GenSend \/ GenBlock \/ GenTx \/ GenClose

Replay ==
  \/ ReplayOpenDB \/ ReplaySetup \/ ReplayLoadAccount
  \/ ReplayRecv \/ ReplayCall \/ ReplayVerify
  \/ ReplayRangeEnd \/ ReplayLastCall \/ ReplayLastVerify
  \/ ReplayDeferred

Next == Generator \/ Replay

Spec == Init /\ [][Next]_vars

\* The same pipeline over block lists one block longer than MaxBlocks, with a
\* break configured: a break point can then lie before the last block.
BreakConfigs ==
  {cf \in Configs({FALSE}) :
     cf.BreakBlock # 0 /\ cf.BatchSize = MaxBatchSize /\ cf.StartTx = 0}

DeepChains == [1..(MaxBlocks + 1) -> 0..1]

InitBreak == InitReplay(BreakConfigs, DeepChains)

SpecBreak == InitBreak /\ [][Next]_vars

\* The pipeline over the three-block chains whose first and last block are empty
\* (block 1 holds the transactions), with no start or break cursor; the run may
\* include the account and neard setup.
ScenarioConfigs ==
  [Gas : (MaxGas - 1)..MaxGas, Skip : Bool, Batch : Bool, BatchSize : 1..MaxBatchSize,
   StartBlock : {0}, StartTx : {0}, BreakBlock : {0}, BreakTx : {0}, Setup : Bool]

ScenarioChains == {<<0, n, 0>> : n \in 1..MaxTx}

InitScenario == InitReplay(ScenarioConfigs, ScenarioChains)

SpecScenario == InitScenario /\ [][Next]_vars

\* The pipeline over block lists that yield more steps than the channel can
\* buffer, so that the goroutine's send can block. The goroutine and Replay are
\* both scheduled fairly: a step either of them can take is eventually taken
\* (every DB read and Ledger call returns).
QueueConfigs ==
  [Gas : {MaxGas}, Skip : Bool, Batch : Bool, BatchSize : 1..MaxBatchSize,
   StartBlock : {0}, StartTx : {0}, BreakBlock : {0}, BreakTx : {0}, Setup : {FALSE}]

\* one list of empty blocks and one of blocks with one transaction each; either
\* yields at least two steps more than the largest buffer holds
QueueChains ==
  {[k \in 1..(QueueFactor * MaxBatchSize + 1) |-> 0],
   [k \in 1..((QueueFactor * MaxBatchSize) \div 2 + 1) |-> 1]}

InitQueue == InitReplay(QueueConfigs, QueueChains)

SpecQueue == InitQueue /\ [][Next]_vars /\ WF_vars(Generator) /\ WF_vars(Replay)

\* ------------------------------------------------------- ExponentialBackoff
\* waitBackoff is a float64; the model takes the halves <<num, 2>>, for which the
\* float64 product of line 26 is exact.
BackoffFactors == {<<n, 2>> : n \in 0..MaxBackoffNum}

\* (a variant that rounds the product up)
NextWaitRoundedUp(w, f) == (w * f[1] + f[2] - 1) \div f[2]

\* line 26: int(float64(waitTime) * waitBackoff): the product, truncated to an int
NextWait(w, f) == (w * f[1]) \div f[2]

BackoffFailed == <<"utils: exponential backoff failed">>

InitBackoff ==
  /\ startWaitTime \in 0..MaxWait
  /\ retryNumber \in 0..MaxRetry
  /\ waitBackoff \in BackoffFactors
  /\ waitTime = startWaitTime          \* line 16
  /\ bi = 0
  /\ fnCalls = <<>>
  /\ sleeps = <<>>
  /\ bpc = "loop"
  /\ bret = [res |-> NoResult, err |-> NoErr]
  /\ TraverseIdle
  /\ PipelineIdle

\* lines 17-21: the loop test holds and fn() is called; its success is returned
BackoffCall ==
  /\ bpc = "loop"
  /\ bi < retryNumber
  /\ \E ok \in {TRUE, FALSE} :
       /\ fnCalls' = Append(fnCalls, ok)
       /\ IF ok
            THEN /\ bret' = [res |-> <<"result of call", Len(fnCalls')>>, err |-> NoErr]
                 /\ bpc' = "done"
            ELSE /\ bpc' = "sleep"
                 /\ UNCHANGED bret
  /\ UNCHANGED <<startWaitTime, retryNumber, waitBackoff, waitTime, bi, sleeps>>
  /\ UNCHANGED <<tvars, pvars>>

\* lines 22-27: fn() failed: sleep, scale the wait, next iteration
BackoffSleep ==
  /\ bpc = "sleep"
  /\ sleeps' = Append(sleeps, waitTime)
  /\ waitTime' = NextWait(waitTime, waitBackoff)
  /\ bi' = bi + 1
  /\ bpc' = "loop"
  /\ UNCHANGED <<startWaitTime, retryNumber, waitBackoff, fnCalls, bret>>
  /\ UNCHANGED <<tvars, pvars>>

\* line 29: the loop test fails
BackoffExhausted ==
  /\ bpc = "loop"
  /\ bi >= retryNumber
  /\ bret' = [res |-> NoResult, err |-> BackoffFailed]
  /\ bpc' = "done"
  /\ UNCHANGED <<startWaitTime, retryNumber, waitBackoff, waitTime, bi, fnCalls, sleeps>>
  /\ UNCHANGED <<tvars, pvars>>

NextBackoff == BackoffCall \/ BackoffSleep \/ BackoffExhausted

SpecBackoff == InitBackoff /\ [][NextBackoff]_vars

\* ====================================================================
\* Properties
\* ====================================================================

\* The source chain of height H is complete in the DB: every block from height H
\* down to genesis is stored under its (hash, height) and names its parent.
ValidChain ==
  \A h \in 0..H :
    /\ ReadBlock(db, canon[h + 1], h) # NilBlock
    /\ h > 0 => ReadBlock(db, canon[h + 1], h).parent = canon[h]

\* C1: for a source chain of height H whose parent pointers lead from the block
\* at height H back to genesis, traverse returns exactly H hashes, the i-th
\* (0-based) being the hash of the block at height i: ascending by height,
\* contiguous from 0 to H-1, without duplicates (empty for H = 0).
C1_TraverseAscending ==
  (tpc = "done" /\ ValidChain) =>
     /\ tret.err = NoErr
     /\ Len(tret.blocks) = H
     /\ \A h \in 0..(H - 1) :
          /\ tret.blocks[h + 1] = canon[h + 1]
          /\ ReadBlock(db, tret.blocks[h + 1], h) # NilBlock
     /\ Injective(tret.blocks)

C1_Witness ==
  /\ tpc = "done"
  /\ ValidChain
  /\ H = MaxHeight
  /\ Len(tret.blocks) = H

\* ------------------------------------------------------------ the step stream
IsSubmission(t) == t.MethodName # ""
IsSubmit(t)     == t.MethodName = "submit"
IsBootstrap(t)  == t.MethodName = "begin_chain"

\* The block height a step is about (the bootstrap step precedes every block).
StepHeight(t) ==
  CASE t.Error # NoErr -> t.Error[2]
    [] IsBootstrap(t) -> -1
    [] t.MethodName \in {"begin_block", "submit"} -> t.Args[2]
    [] t.Comment[1] \in {"breaking at transaction", "skipping transaction"} -> t.Comment[3]
    [] OTHER -> t.Comment[2]

\* The transaction index of a submit step.
StepIndex(t) == t.Args[3]

\* The step that opens the processing of the block at height h.
IsBlockStep(t, h) ==
  \/ t = beginBlockTx(h)
  \/ t = Comment(<<"begin_block() skipped for empty block", h>>)

LexLess(p, q) == p[1] < q[1] \/ (p[1] = q[1] /\ p[2] < q[2])

\* The stream ended by close(c): the block list was exhausted or a break fired.
StreamClosed == closed

\* C2: the emitted stream preserves source chain order: the bootstrap Submission
\* is the first step and the only bootstrap; heights never decrease along the
\* stream; every submit step of a block comes after that block's begin-block
\* step (or skipped-empty-block Comment) and no such step follows it; submit
\* steps of one block appear in strictly ascending transaction index.
C2_StreamOrder ==
  /\ emitted # <<>> => emitted[1] = beginChainTx /\ IsSubmission(emitted[1])
  /\ \A k \in 2..Len(emitted) : ~IsBootstrap(emitted[k])
  /\ \A j, k \in 2..Len(emitted) :
       j < k =>
         /\ StepHeight(emitted[j]) <= StepHeight(emitted[k])
         /\ (IsSubmit(emitted[j]) /\ IsSubmit(emitted[k])
             /\ StepHeight(emitted[j]) = StepHeight(emitted[k]))
              => StepIndex(emitted[j]) < StepIndex(emitted[k])
  /\ \A k \in 2..Len(emitted) :
       IsSubmit(emitted[k]) =>
         /\ \E j \in 2..(k - 1) : IsBlockStep(emitted[j], StepHeight(emitted[k]))
         /\ \A j \in (k + 1)..Len(emitted) :
              ~IsBlockStep(emitted[j], StepHeight(emitted[k]))

C2_Witness ==
  /\ StreamClosed
  /\ gpc = "done"
  /\ \E j, k, m \in 2..Len(emitted) :
       /\ j < k /\ k < m
       /\ emitted[j] = submitTx(0, 0)
       /\ emitted[k] = submitTx(0, 1)
       /\ emitted[m] = submitTx(1, 0)

IsComment(t) == t.MethodName = "" /\ t.Error = NoErr /\ t.Comment # NoComment

\* A step about one transaction, and the (block, tx-index) pair it is about.
IsTxStep(t) ==
  \/ IsSubmit(t)
  \/ IsComment(t) /\ t.Comment[1] \in {"skipping transaction", "breaking at transaction"}
StepPair(t) ==
  IF IsSubmit(t) THEN <<StepHeight(t), StepIndex(t)>> ELSE <<t.Comment[3], t.Comment[2]>>

\* Number of times step t was emitted.
Emissions(t) == Cardinality({k \in DOMAIN emitted : emitted[k] = t})

\* The (block, tx-index) pairs of the block list.
Pairs == {p \in (0..(Len(blocks) - 1)) \X (0..MaxTx) : p[2] < blocks[p[1] + 1]}

\* C3: with no break configured, no submit Submission is emitted for a pair
\* lexicographically below (StartBlock, StartTx) (every step about such a pair is
\* a Comment), no pair is submitted twice, and once the stream has ended every
\* pair at or above (StartBlock, StartTx) has been emitted as exactly one submit
\* Submission.
C3_StartCursor ==
  r.BreakBlock = 0 =>
    /\ \A k \in DOMAIN emitted :
         (IsTxStep(emitted[k]) /\ LexLess(StepPair(emitted[k]), <<r.StartBlock, r.StartTx>>))
           => IsComment(emitted[k])
    /\ \A p \in Pairs :
         /\ Emissions(submitTx(p[1], p[2])) <= 1
         /\ LexLess(p, <<r.StartBlock, r.StartTx>>) => Emissions(submitTx(p[1], p[2])) = 0
         /\ (StreamClosed /\ ~LexLess(p, <<r.StartBlock, r.StartTx>>))
              => Emissions(submitTx(p[1], p[2])) = 1

C3_Witness ==
  /\ r.BreakBlock = 0
  /\ StreamClosed
  /\ r.StartBlock = 1 /\ r.StartTx = 1
  /\ Len(blocks) = 2 /\ blocks[1] > 0 /\ blocks[2] = 2
  /\ Emissions(submitTx(1, 1)) = 1
  /\ Emissions(Comment(<<"skipping transaction", 0, 1>>)) = 1

\* The position of a step in the (block, tx-index) order; a block-level step
\* comes before the block's transaction 0.
StepPosition(t) == IF IsTxStep(t) THEN StepPair(t) ELSE <<StepHeight(t), -1>>

\* A step that marks a break, as against one that processes a block or transaction.
IsBreakComment(t) ==
  IsComment(t) /\ t.Comment[1] \in {"breaking block", "breaking at transaction"}

\* C4: with a break configured (BreakBlock # 0), for any start cursor and chain,
\* the stream holds no Submission and no per-block or per-transaction processing
\* step for a position at or after (BreakBlock, BreakTx), and a generator that
\* finished without an Error step has closed the queue.
C4_BreakStopsStream ==
  r.BreakBlock # 0 =>
    /\ \A k \in 2..Len(emitted) :
         ~IsBreakComment(emitted[k])
           => LexLess(StepPosition(emitted[k]), <<r.BreakBlock, r.BreakTx>>)
    /\ (gpc = "done" /\ emitted[Len(emitted)].Error = NoErr) => StreamClosed

\* ------------------------------------------------------------------ the run
Returned  == rpc \in {"returning", "done"}
Succeeded == Returned /\ ret.err = NoErr

\* The Submission steps emitted so far, in emission order.
EmittedSubmissions == SelectSeq(emitted, IsSubmission)

CeilDiv(m, n) == (m + n - 1) \div n

\* C5: in batch mode with BatchSize = N >= 1 and no break, a run that succeeded
\* (no Error step, no Ledger failure) over a stream of M Submission steps made
\* exactly ceil(M/N) Ledger calls, all of them batch submissions, every one but
\* the last of N actions and the last of M mod N actions (N if M mod N = 0).
C5_BatchCount ==
  (r.Batch /\ r.BreakBlock = 0 /\ Succeeded) =>
    LET M == Len(EmittedSubmissions)
        N == r.BatchSize
    IN /\ Len(calls) = CeilDiv(M, N)
       /\ \A k \in DOMAIN calls :
            /\ calls[k].fn = "SignAndSendTransaction"
            /\ Len(calls[k].actions) =
                 IF k < Len(calls) \/ M % N = 0 THEN N ELSE M % N

C5_Witness ==
  /\ r.Batch /\ r.BreakBlock = 0 /\ Succeeded
  /\ r.BatchSize = 2
  /\ Len(calls) >= 3
  /\ Len(EmittedSubmissions) % 2 = 1

Last(s) == s[Len(s)]

\* C6: the in-progress batch never holds more than BatchSize actions; the last
\* call is reached only with a non-empty batch once the queue is closed and
\* drained; and a run that returned success with a partial batch left over has
\* submitted exactly that batch as its last Ledger call and verified it.
C6_BatchBounded ==
  /\ Len(batch) <= r.BatchSize
  /\ rpc \in {"lastCall", "lastVerify"} => (Len(batch) > 0 /\ closed /\ c = <<>>)
  /\ (Succeeded /\ Len(batch) > 0) =>
       /\ calls # <<>>
       /\ Last(calls).actions = batch
       /\ Last(calls).outcome = "ok"
       /\ verified = Len(calls)

C6_Witness ==
  /\ Succeeded
  /\ Len(batch) > 0
  /\ Len(batch) < r.BatchSize
  /\ Len(calls) >= 2
  /\ Last(calls).actions = batch

\* C7: once Replay has received a step whose Error is set, it receives no
\* further step, makes no further Ledger call (no flush of a pending batch) and
\* no further check, and it returns that very error value.
C7_ErrorStops ==
  [][/\ tx.Error # NoErr =>
          /\ ndeq' = ndeq /\ tx' = tx /\ calls' = calls /\ verified' = verified
          /\ batch' = batch /\ ret' = ret
     /\ tx'.Error # NoErr => (rpc' \in {"returning", "done"} /\ ret'.err = tx'.Error)
    ]_vars

C7_Witness ==
  /\ rpc = "done"
  /\ tx.Error # NoErr
  /\ ret.err = tx.Error
  /\ Len(batch) > 0
  /\ calls # <<>>

\* C8: every Ledger result is checked by procTxResult before the next step is
\* received (and before a successful return), and a Ledger call that returned a
\* failure status or an error is the last call: no step is received after it and
\* the run returns an error.
C8_VerifiedBeforeNext ==
  /\ rpc = "range" => verified = Len(calls)
  /\ Succeeded => verified = Len(calls)
  /\ \A k \in DOMAIN calls :
       calls[k].outcome # "ok" =>
         /\ k = Len(calls)
         /\ ndeq = calls[k].deq
         /\ rpc \in {"verify", "lastVerify", "returning", "done"}
         /\ Returned => ret.err # NoErr

C8_Witness ==
  /\ rpc = "done"
  /\ r.Batch
  /\ Len(calls) = 2
  /\ calls[2].outcome = "Failure"
  /\ c # <<>>
  /\ ret.err # NoErr

RECURSIVE SubmittedFrom(_)
\* The actions handed to the Ledger by the first k calls, in submission order.
SubmittedFrom(k) ==
  IF k = 0 THEN <<>> ELSE SubmittedFrom(k - 1) \o calls[k].actions

Submitted == SubmittedFrom(Len(calls))

\* What identifies a submission: the method and its arguments.
StepKey(t) == <<t.MethodName, t.Args>>

IsPrefix(s, t) == Len(s) <= Len(t) /\ \A k \in DOMAIN s : s[k] = t[k]

Keys(s) == [k \in DOMAIN s |-> StepKey(s[k])]

\* C9: the actions handed to the Ledger, batches concatenated in call order, are
\* always a prefix of the emitted Submission steps in emission order, which are
\* pairwise distinct (so no Submission is handed over twice); and in a run that
\* returned success the two sequences are equal.
C9_ExactlyOnceInOrder ==
  /\ Injective(Keys(EmittedSubmissions))
  /\ IsPrefix(Keys(Submitted), Keys(EmittedSubmissions))
  /\ Succeeded => Keys(Submitted) = Keys(EmittedSubmissions)

C9_Witness ==
  /\ Succeeded
  /\ r.Batch
  /\ Len(calls) >= 2
  /\ Len(Submitted) >= 5
  /\ Keys(Submitted) = Keys(EmittedSubmissions)

\* ------------------------------------------------------------- the retry helper
Failures == Cardinality({k \in DOMAIN fnCalls : ~fnCalls[k]})

\* What C10 says of the calls and of the result, whatever the waits are: fn is
\* invoked at most retryNumber times; a success is the last invocation, follows
\* failures only, and its result is returned with a nil error; the 'exponential
\* backoff failed' error is returned exactly when all retryNumber invocations
\* failed; every failure is followed by one sleep, the first of startWaitTime.
BackoffCallsAndResult ==
  /\ Len(fnCalls) <= retryNumber
  /\ \A k \in DOMAIN fnCalls : fnCalls[k] => k = Len(fnCalls)
  /\ (fnCalls # <<>> /\ Last(fnCalls)) =>
       /\ bpc = "done"
       /\ bret = [res |-> <<"result of call", Len(fnCalls)>>, err |-> NoErr]
  /\ bpc = "done" =>
       /\ bret.err \in {NoErr, BackoffFailed}
       /\ bret.err = BackoffFailed <=> Failures = retryNumber
       /\ Len(sleeps) = Failures
  /\ bpc = "loop" => Len(sleeps) = Failures
  /\ bpc = "sleep" => Len(sleeps) + 1 = Failures
  /\ sleeps # <<>> => sleeps[1] = startWaitTime

\* C10 as stated: the above, and each wait is the one before it multiplied by
\* waitBackoff.
C10_BackoffExactProduct ==
  /\ BackoffCallsAndResult
  /\ \A k \in 1..(Len(sleeps) - 1) :
       sleeps[k + 1] * waitBackoff[2] = sleeps[k] * waitBackoff[1]

\* C10, amended: the above, and each wait is the one before it multiplied by
\* waitBackoff and truncated to a whole number of milliseconds.
C10_BackoffTruncatedProduct ==
  /\ BackoffCallsAndResult
  /\ \A k \in 1..(Len(sleeps) - 1) :
       /\ sleeps[k + 1] * waitBackoff[2] <= sleeps[k] * waitBackoff[1]
       /\ sleeps[k] * waitBackoff[1] < (sleeps[k + 1] + 1) * waitBackoff[2]

C10_Witness ==
  /\ bpc = "done"
  /\ bret.err = BackoffFailed
  /\ retryNumber = MaxRetry
  /\ startWaitTime = MaxWait
  /\ waitBackoff = <<3, 2>>
  /\ Len(sleeps) = MaxRetry
  /\ sleeps[2] * 2 < sleeps[1] * 3

\* ------------------------------------------------------- the three-block scenario
\* The chain of 3 blocks (heights 0-2) of which block 1 has 2 transactions and
\* the others none, replayed with skip-empty-blocks and no start or break cursor.
Scenario ==
  /\ blocks = <<0, 2, 0>>
  /\ r.Skip
  /\ r.StartBlock = 0 /\ r.StartTx = 0 /\ r.BreakBlock = 0

\* The steps the generator emits in the scenario, in order.
ScenarioStream ==
  << beginChainTx,
     Comment(<<"begin_block() skipped for empty block", 0>>),
     beginBlockTx(1), submitTx(1, 0), submitTx(1, 1),
     Comment(<<"begin_block() skipped for empty block", 2>>) >>

\* The method names of the actions handed to the Ledger, in call order.
Methods(s) == [k \in DOMAIN s |-> s[k].MethodName]

\* C11 as stated: in the scenario with batching disabled, a run that succeeded
\* made exactly 3 Ledger calls: the bootstrap and the 2 transaction submits.
C11_ThreeCalls ==
  (Scenario /\ ~r.Batch /\ Succeeded) =>
    /\ Len(calls) = 3
    /\ Methods(Submitted) = <<"begin_chain", "submit", "submit">>

\* C11, amended: in the scenario with batching disabled, a run that succeeded
\* emitted bootstrap, comment (block 0), begin-block (block 1), submit (tx 0),
\* submit (tx 1), comment (block 2), with a begin-block for block 1 only, and
\* made exactly 4 Ledger calls, each a single FunctionCall: the bootstrap, the
\* begin-block of block 1 and the 2 transaction submits, in that order.
C11_FourCalls ==
  (Scenario /\ ~r.Batch /\ Succeeded) =>
    /\ emitted = ScenarioStream
    /\ Len(calls) = 4
    /\ \A k \in DOMAIN calls :
         calls[k].fn = "FunctionCall" /\ Len(calls[k].actions) = 1
    /\ Keys(Submitted) = <<StepKey(beginChainTx), StepKey(beginBlockTx(1)),
                           StepKey(submitTx(1, 0)), StepKey(submitTx(1, 1))>>

C11_Witness ==
  /\ Scenario /\ ~r.Batch /\ Succeeded
  /\ rpc = "done"
  /\ Len(calls) = 4
  /\ Methods(Submitted) = <<"begin_chain", "begin_block", "submit", "submit">>

\* The steps Replay has received (c is first in, first out), and the Submissions
\* among them.
Received == SubSeq(emitted, 1, ndeq)
ReceivedSubmissions == SelectSeq(Received, IsSubmission)

\* The last Ledger call sent the batch without resetting it: it was the call
\* after the loop, or it returned an error.
BatchSent == calls # <<>> /\ (Last(calls).at = "lastCall" \/ Last(calls).outcome = "err")

\* Every action taken into a batch so far: those submitted and those pending.
Batched == Submitted \o (IF BatchSent THEN <<>> ELSE batch)

\* What C12 says of batch mode at large: every received Submission, whatever its
\* method, has been appended to the Batch, in order, and a Ledger call made
\* inside the loop carries exactly BatchSize of them.
AllSubmissionsBatched ==
  r.Batch =>
    /\ Keys(Batched) = Keys(ReceivedSubmissions)
    /\ \A k \in DOMAIN calls :
         /\ calls[k].fn = "SignAndSendTransaction"
         /\ calls[k].at = "call" => Len(calls[k].actions) = r.BatchSize

\* C12 as stated: the above, and in the scenario with BatchSize = 2 a run that
\* succeeded made exactly 2 batch submissions: one full batch of 2 inside the
\* loop and one remainder flushed after the queue was closed.
C12_BatchAndRemainder ==
  /\ AllSubmissionsBatched
  /\ (Scenario /\ r.Batch /\ r.BatchSize = 2 /\ Succeeded) =>
       /\ Len(calls) = 2
       /\ calls[1].at = "call" /\ Len(calls[1].actions) = 2
       /\ calls[2].at = "lastCall"

\* C12, amended: the above, and in the scenario with BatchSize = 2 a run that
\* succeeded made exactly 2 batch submissions, both full batches of 2 sent
\* inside the loop (bootstrap with begin-block, then the two submits); no
\* remainder was left to flush after the queue was closed.
C12_TwoFullBatches ==
  /\ AllSubmissionsBatched
  /\ (Scenario /\ r.Batch /\ r.BatchSize = 2 /\ Succeeded) =>
       /\ Len(calls) = 2
       /\ \A k \in DOMAIN calls : calls[k].at = "call" /\ Len(calls[k].actions) = 2
       /\ Methods(calls[1].actions) = <<"begin_chain", "begin_block">>
       /\ Methods(calls[2].actions) = <<"submit", "submit">>
       /\ batch = <<>>

C12_Witness ==
  /\ Scenario /\ r.Batch /\ r.BatchSize = 2 /\ Succeeded
  /\ rpc = "done"
  /\ Len(calls) = 2
  /\ calls[2].at = "call"
  /\ closed /\ c = <<>>

\* ------------------------------------------------------------ block-level steps
EmptyBlockComment(h) == Comment(<<"begin_block() skipped for empty block", h>>)

\* Number of block-level steps (begin-block Submission or empty-block Comment)
\* emitted for the block at height h.
BlockSteps(h) == Emissions(beginBlockTx(h)) + Emissions(EmptyBlockComment(h))

\* The generator has gone past the block at height h: it emitted a step about a
\* later block, or it closed the queue with no break at or before h.
PastBlock(h) ==
  \/ \E k \in 2..Len(emitted) : StepHeight(emitted[k]) > h
  \/ StreamClosed /\ (r.BreakBlock = 0 \/ h < r.BreakBlock)

\* C13: no block gets more than one block-level step and a block below
\* StartBlock gets none; a begin-block Submission is emitted only for a block that
\* has transactions or with skip-empty-blocks disabled, an empty-block Comment
\* only for a block without transactions with skip-empty-blocks enabled; every
\* step about a transaction of a block comes after that block's block-level
\* step; and every block from StartBlock on that the generator has gone past
\* (no break, no Error step before it) has exactly one block-level step.
C13_OneBlockStep ==
  \A h \in 0..(Len(blocks) - 1) :
    /\ BlockSteps(h) <= 1
    /\ h < r.StartBlock => BlockSteps(h) = 0
    /\ Emissions(beginBlockTx(h)) = 1 => (~r.Skip \/ blocks[h + 1] > 0)
    /\ Emissions(EmptyBlockComment(h)) = 1 => (r.Skip /\ blocks[h + 1] = 0)
    /\ \A k \in 2..Len(emitted) :
         (IsTxStep(emitted[k]) /\ StepPair(emitted[k])[1] = h)
           => \E j \in 2..(k - 1) : IsBlockStep(emitted[j], h)
    /\ (PastBlock(h) /\ h >= r.StartBlock) => BlockSteps(h) = 1

C13_Witness ==
  /\ StreamClosed
  /\ r.Skip /\ r.StartBlock = 0 /\ r.BreakBlock = 0
  /\ Len(blocks) = 2 /\ blocks[1] = 0 /\ blocks[2] > 0
  /\ Emissions(EmptyBlockComment(0)) = 1
  /\ Emissions(beginBlockTx(1)) = 1

\* ------------------------------------------------------------------- the queue
\* Steps emitted and not yet received by Replay.
InFlight == Len(emitted) - ndeq

\* C14: the queue never holds more than 10 x BatchSize steps: the steps emitted
\* and not yet received are exactly those in the queue and number at most
\* 10 x BatchSize, and while the queue is full the generator, with one more step
\* in hand, cannot send it.
C14_QueueBounded ==
  /\ Len(c) <= QueueFactor * r.BatchSize
  /\ InFlight = Len(c)
  /\ InFlight <= QueueFactor * r.BatchSize
  /\ (gpc = "send" /\ Len(c) = QueueFactor * r.BatchSize) => ~ENABLED GenSend

C14_Witness ==
  /\ r.BatchSize = 2
  /\ gpc = "send"
  /\ Len(c) = QueueFactor * r.BatchSize
  /\ rpc = "range"
  /\ ndeq > 0

\* ----------------------------------------------------------------- termination
\* The errors Replay returns before it starts the generator.
StartupErrors ==
  {<<"cache dir">>, <<"open db">>, <<"create account">>, <<"neard setup">>,
   <<"load account">>}

\* Replay returned success: the queue was closed and drained, the generator has
\* ended, and a batch left over was sent by the call after the loop.
EndedInSuccess ==
  /\ ret.err = NoErr
  /\ closed /\ c = <<>> /\ gpc = "done"
  /\ verified = Len(calls)
  /\ batch # <<>> => (calls # <<>> /\ Last(calls).at = "lastCall"
                      /\ Last(calls).actions = batch)

\* Replay returned an error: that of an Error step, of a Ledger call, of the
\* Result Verifier, or of its own startup.
EndedInError ==
  /\ ret.err # NoErr
  /\ \/ tx.Error # NoErr /\ ret.err = tx.Error
     \/ calls # <<>> /\ Last(calls).outcome = "err"
          /\ ret.err = <<"ledger call failed", Len(calls)>>
     \/ calls # <<>> /\ Last(calls).outcome = "Failure"
          /\ ret.err = <<"replayer: transaction failed">>
     \/ ret.err \in StartupErrors /\ gpc = "idle"

\* C15: with the goroutine and Replay scheduled fairly and every DB read and
\* Ledger call returning, every run of Replay eventually returns (it never
\* waits on the queue for ever), and it returns either success, with the queue
\* closed and drained and the last batch sent, or a propagated error.
C15_ReplayEnds ==
  /\ <>(rpc = "done")
  /\ [](Returned => (EndedInSuccess \/ EndedInError))

C15_Witness ==
  /\ rpc = "done"
  /\ EndedInSuccess
  /\ r.Batch /\ r.BatchSize = 2
  /\ Len(emitted) > QueueFactor * r.BatchSize
  /\ Len(calls) > QueueFactor

\* -------------------------------------------------------------- the chain DB
\* openDB returned a database (Replay got past lines 319-323).
Opened == dbState # "unopened"

\* C16: the database is closed only by Replay's return: it stays open from
\* openDB's success until Replay returns, is never closed twice, and once Replay
\* has returned after opening it, it has been closed exactly once, whatever the
\* exit path (success, Error step, Ledger error, Result Verifier failure,
\* account-creation or neard-setup failure, account-load failure); a Replay that
\* failed to open it closes nothing.
C16_ClosedOnce ==
  /\ dbCloses <= 1
  /\ (Opened /\ rpc # "done") => (dbState = "open" /\ dbCloses = 0)
  /\ (Opened /\ rpc = "done") => (dbState = "closed" /\ dbCloses = 1)
  /\ ~Opened => (dbCloses = 0 /\ (Returned => ret.err \in {<<"cache dir">>, <<"open db">>}))

C16_Witness ==
  /\ rpc = "done"
  /\ r.Setup
  /\ ret.err = <<"neard setup">>
  /\ dbState = "closed" /\ dbCloses = 1

\* ------------------------------------------------------------ traverse's reads
\* The DB holds no block under the (hash, height) pair p.
Missing(p) == p \notin DOMAIN db

\* C17: traverse reads the pairs (parent hash, height) from height H-1 downwards,
\* each once; a read that finds no block is its last read, and traverse then is
\* done with an error naming that pair and with no hash list (not the hashes
\* collected so far); it returns an error in no other case.
C17_FailsOnMissing ==
  /\ \A k \in DOMAIN reads : reads[k] = <<canon[H - k + 1], H - k>>
  /\ Injective(reads)
  /\ \A k \in DOMAIN reads :
       Missing(reads[k]) =>
         /\ k = Len(reads)
         /\ tpc = "done"
         /\ tret = [blocks |-> <<>>,
                    err |-> <<"cannot read block", reads[k][2], reads[k][1]>>]
  /\ (tpc = "done" /\ tret.err # NoErr) => (reads # <<>> /\ Missing(Last(reads)))

C17_Witness ==
  /\ tpc = "done"
  /\ tret.err # NoErr
  /\ tret.blocks = <<>>
  /\ H = MaxHeight
  /\ Len(reads) = 2
  /\ blocksT # <<>>
  /\ \E h \in 0..(H - 3) : ~Missing(<<canon[h + 1], h>>)

\* ------------------------------------------------------- the goroutine's end
\* Replay stopped receiving from c because of an error.
StoppedOnError == Returned /\ ret.err # NoErr /\ gpc # "idle"

\* C18: once Replay has stopped receiving because of an error, the generator
\* goroutine has ended or can still take a step; it is not blocked on a send to
\* the full queue (which nothing will drain any more).
C18_ProducerNotStuck ==
  StoppedOnError => (gpc = "done" \/ ENABLED Generator)

\* C19: every rawdb.ReadBlock of the generator goroutine finds the database open:
\* none is made after Replay's deferred db.Close() has run.
C19_NoReadAfterClose ==
  \A k \in DOMAIN dbReads : dbReads[k][2] = "open"

\* ------------------------------------------------------------------------ gas
RECURSIVE TotalGas(_)
\* The gas attached to a sequence of actions.
TotalGas(as) == IF as = <<>> THEN 0 ELSE as[1].Gas + TotalGas(Tail(as))

\* Every action of the sequence carries gas g and no deposit.
AllCarry(as, g) == \A k \in DOMAIN as : as[k].Gas = g /\ as[k].Deposit = 0

\* C20: in batch mode every action, of a submitted batch and of the batch being
\* built, carries the integer quotient Gas / BatchSize and zero deposit, and the
\* gas of one batch submission sums to at most Gas; in non-batch mode every call
\* carries exactly Gas and zero deposit, in a single action.
C20_GasShare ==
  /\ r.Batch =>
       /\ AllCarry(batch, r.Gas \div r.BatchSize)
       /\ \A k \in DOMAIN calls :
            /\ AllCarry(calls[k].actions, r.Gas \div r.BatchSize)
            /\ TotalGas(calls[k].actions) <= r.Gas
  /\ ~r.Batch =>
       /\ batch = <<>>
       /\ \A k \in DOMAIN calls :
            /\ Len(calls[k].actions) = 1
            /\ AllCarry(calls[k].actions, r.Gas)

C20_Witness ==
  /\ r.Batch /\ r.BatchSize = 2 /\ r.Gas = MaxGas
  /\ Len(calls) = 2
  /\ Len(calls[2].actions) = 2
  /\ TotalGas(calls[2].actions) = 2 * (MaxGas \div 2)
  /\ rpc = "done"

====
